---------------------------- MODULE Spec2Model ----------------------------
(***************************************************************************)
(* A model of the Baidu PCS client binding (package pcs).                  *)
(*                                                                         *)
(*   pcs.go   (src/unnamed/part_000, lines 1-243): Client, NewClient,      *)
(*            Get/Post/PostForm, addOptions, NewRequest, Do, CheckResponse *)
(*   file.go  (src/unnamed/part_001): the public operations                *)
(*                                                                         *)
(* Strings that the code parses or formats are modelled by their content:  *)
(*   - a URL string is the tuple <<scheme, host, path, rawquery>>; a       *)
(*     parsed url.URL is the record [Scheme, Host, Path, RawQuery];        *)
(*   - a path is the sequence strings.Split(path, "/") would give, so an   *)
(*     absolute path starts with the empty segment;                        *)
(*   - an encoded query is the sequence of its key=value pairs;            *)
(*   - JSON text is its sequence of tokens;                                *)
(*   - file content is a run-length encoded byte sequence, which keeps     *)
(*     the real 256 KiB threshold within reach of the model checker.       *)
(* The HTTP transport (c.client.Do) is the environment: for every request  *)
(* handed to it, it answers with a transport error or a response.          *)
(***************************************************************************)
EXTENDS Integers, Sequences, FiniteSets, TLC

VARIABLES
    client,     \* the *Client built by NewClient
    call,       \* the last call of a public method: arguments, requests, results
    prev,       \* the call before it (SpecSum), the merge to retry (SpecRetry)
    bu,         \* a block upload in progress: its chunk uploads (SpecBlock only)
    fs,         \* the local files: the handles open, and the file an upload reads
    shared,     \* the client of the variant that keeps its URLs and its query map
                \* as fields its methods write to (part_000, lines 245 on)
    net         \* the request in flight inside c.client.Do, stage by stage (SpecWait)

vars == <<client, call, prev, bu, fs, shared, net>>

(***************************************************************************)
(* Program constants                                                       *)
(***************************************************************************)
minRapidUploadFile == 256 * 1024

MinBlockList == 2

MaxBlockList == 1024

userAgent == "go-baidupcs/0.1"

defaultBaseURL == <<"https", "pcs.baidu.com", <<"", "rest", "2.0", "pcs">>, <<>> >>

uploadBaseURL == <<"https", "c.pcs.baidu.com", <<"", "rest", "2.0", "pcs">>, <<>> >>

downloadBaseURL == <<"https", "d.pcs.baidu.com", <<"", "rest", "2.0", "pcs">>, <<>> >>

ErrInvalidArgument == "baidu-pcs: invalid argument"

ErrMinRapidFileSize == "baidu-pcs: rapid upload file size must > 256KB"

ErrIncompleteFile == "baidu-pcs: could not read the whole file"

(***************************************************************************)
(* Bounds of the model                                                     *)
(***************************************************************************)
\* block lists of every length up to MaxShortList, over every digest, are tried
MaxShortList == 3

\* block lists of MaxBlockList - 1 .. MaxBlockList + MaxOver entries are tried
MaxOver == 2

\* files of up to MaxRuns runs of equal bytes are tried
MaxRuns == 2

\* the open file handles are counted up to MaxHandles
MaxHandles == 2

Min(a, b) == IF a <= b THEN a ELSE b

(***************************************************************************)
(* Byte sequences, run-length encoded: a sequence of runs [b, n] with      *)
(* n > 0 and no two adjacent runs of the same byte (the canonical form,    *)
(* one per byte sequence).                                                 *)
(***************************************************************************)
RECURSIVE BLen(_)
BLen(bs) == IF bs = <<>> THEN 0 ELSE Head(bs).n + BLen(Tail(bs))

\* a ++ b, joined into the canonical form
BCat(a, b) ==
    IF a = <<>> THEN b
    ELSE IF b = <<>> THEN a
    ELSE IF a[Len(a)].b = b[1].b
         THEN SubSeq(a, 1, Len(a) - 1)
              \o <<[b |-> b[1].b, n |-> a[Len(a)].n + b[1].n]>>
              \o Tail(b)
         ELSE a \o b

\* the first k bytes of bs (all of bs when it is shorter)
RECURSIVE BTake(_, _)
BTake(bs, k) ==
    IF k <= 0 \/ bs = <<>> THEN <<>>
    ELSE IF Head(bs).n >= k THEN <<[b |-> Head(bs).b, n |-> k]>>
    ELSE <<Head(bs)>> \o BTake(Tail(bs), k - Head(bs).n)

\* bs without its first k bytes
RECURSIVE BDrop(_, _)
BDrop(bs, k) ==
    IF k <= 0 \/ bs = <<>> THEN bs
    ELSE IF Head(bs).n > k THEN <<[b |-> Head(bs).b, n |-> Head(bs).n - k]>> \o Tail(bs)
    ELSE BDrop(Tail(bs), k - Head(bs).n)

\* make([]byte, k): k zero bytes
BZeros(k) == IF k <= 0 THEN <<>> ELSE <<[b |-> 0, n |-> k]>>


(***************************************************************************)
(* net/url: URL strings, url.URL, url.Values                               *)
(***************************************************************************)
\* url.Parse: the URL string's parts
ParseURL(s) == [Scheme |-> s[1], Host |-> s[2], Path |-> s[3], RawQuery |-> s[4]]

\* (*url.URL).String: a path that is not rooted gets its slash after a host
URLString(u) ==
    <<u.Scheme, u.Host,
      IF u.Host # "" /\ u.Path # <<>> /\ u.Path[1] # "" THEN <<"">> \o u.Path ELSE u.Path,
      u.RawQuery>>

\* a relative URL string made of a resource path alone, such as "file"
Resource(segs) == <<"", "", segs, <<>> >>

\* resolvePath: a relative reference replaces the base path's last segment
resolvePath(base, ref) ==
    IF ref = <<>> THEN base
    ELSE IF ref[1] # "" /\ base # <<>> THEN SubSeq(base, 1, Len(base) - 1) \o ref
    ELSE ref

\* (*url.URL).ResolveReference (RFC 3986, section 5.2)
ResolveReference(u, ref) ==
    IF ref.Scheme # "" \/ ref.Host # ""
    THEN [ref EXCEPT !.Scheme = IF ref.Scheme = "" THEN u.Scheme ELSE ref.Scheme]
    ELSE [Scheme   |-> u.Scheme,
          Host     |-> u.Host,
          Path     |-> resolvePath(u.Path, ref.Path),
          RawQuery |-> IF ref.Path = <<>> /\ ref.RawQuery = <<>>
                       THEN u.RawQuery ELSE ref.RawQuery]

\* every parameter name of the API, in the byte order url.Values.Encode sorts by
KeyOrder ==
    <<"access_token", "asc", "by", "callback", "content-crc32", "content-length",
      "content-md5", "create_time", "cursor", "expires", "filter_path", "from",
      "fs_id", "height", "limit", "method", "need_task_info", "ondup", "op_type",
      "order", "param", "path", "quality", "rate_limit", "re", "save_path",
      "slice-md5", "source_url", "start", "status", "task_id", "task_ids",
      "timeout", "to", "type", "wd", "width">>

\* url.Values{}: no key
NoValues == [k \in {} |-> <<>>]

\* url.Values.Add
ValuesAdd(qs, k, v) ==
    [x \in DOMAIN qs \cup {k} |->
        IF x = k THEN (IF k \in DOMAIN qs THEN Append(qs[k], v) ELSE <<v>>) ELSE qs[x]]

\* url.Values.Set
ValuesSet(qs, k, v) ==
    [x \in DOMAIN qs \cup {k} |-> IF x = k THEN <<v>> ELSE qs[x]]

\* the key=value pairs of one key, in the order of its values
PairsOf(k, vs) == [i \in 1..Len(vs) |-> [k |-> k, v |-> vs[i]]]

\* url.Values.Encode: the pairs sorted by key
RECURSIVE EncodeFrom(_, _)
EncodeFrom(qs, i) ==
    IF i > Len(KeyOrder) THEN <<>>
    ELSE (IF KeyOrder[i] \in DOMAIN qs THEN PairsOf(KeyOrder[i], qs[KeyOrder[i]]) ELSE <<>>)
         \o EncodeFrom(qs, i + 1)

Encode(qs) == EncodeFrom(qs, 1)

(***************************************************************************)
(* Option sets and go-querystring                                          *)
(* An option argument is [kind, isnil, type, val]: the untyped nil         *)
(* (kind "nil"), a pointer to a struct (kind "ptr", nil or not) or a       *)
(* struct passed by value (kind "struct"); val maps field names to values. *)
(***************************************************************************)
NilOpt == [kind |-> "nil", isnil |-> TRUE, type |-> "", val |-> <<>>]

NilPtr(t) == [kind |-> "ptr", isnil |-> TRUE, type |-> t, val |-> <<>>]

PtrTo(t, v) == [kind |-> "ptr", isnil |-> FALSE, type |-> t, val |-> v]

StructVal(t, v) == [kind |-> "struct", isnil |-> FALSE, type |-> t, val |-> v]

Tag(f, n, o, k) == [field |-> f, name |-> n, omitempty |-> o, kind |-> k]

\* the `url:"..."` tags of each option struct, in field order
Tags(t) ==
    CASE t = "FileOptions" ->
            <<Tag("Path", "path", FALSE, "string"), Tag("OnDup", "ondup", TRUE, "string")>>
      [] t = "TypeOpt" -> <<Tag("Type", "type", FALSE, "string")>>
      [] t = "PathOpt" -> <<Tag("Path", "path", FALSE, "string")>>
      [] t = "ListFilesOptions" ->
            <<Tag("Path", "path", FALSE, "string"), Tag("Order", "order", TRUE, "string"),
              Tag("By", "by", TRUE, "string"), Tag("Limit", "limit", TRUE, "string")>>
      [] t = "FromToOpt" ->
            <<Tag("From", "from", FALSE, "string"), Tag("To", "to", FALSE, "string")>>
      [] t = "SearchOptions" ->
            <<Tag("Path", "path", FALSE, "string"), Tag("Word", "wd", FALSE, "string"),
              Tag("Re", "re", TRUE, "string")>>
      [] t = "ThumbnailOptions" ->
            <<Tag("Path", "path", FALSE, "string"), Tag("Quality", "quality", TRUE, "int"),
              Tag("Height", "height", FALSE, "int"), Tag("Width", "width", FALSE, "int")>>
      [] t = "CursorOpt" -> <<Tag("Cursor", "cursor", FALSE, "string")>>
      [] t = "PathTypeOpt" ->
            <<Tag("Path", "path", FALSE, "string"), Tag("Type", "type", FALSE, "string")>>
      [] t = "ListStreamOptions" ->
            <<Tag("Type", "type", FALSE, "string"), Tag("Start", "start", TRUE, "string"),
              Tag("Limit", "limit", TRUE, "string"),
              Tag("FilterPath", "filter_path", TRUE, "string")>>
      [] t = "RapiduUploadOptions" ->
            <<Tag("Path", "path", FALSE, "string"),
              Tag("ContentLength", "content-length", FALSE, "int"),
              Tag("ContentMd5", "content-md5", FALSE, "string"),
              Tag("SliceMd5", "slice-md5", FALSE, "string"),
              Tag("ContentCrc32", "content-crc32", FALSE, "string"),
              Tag("Ondup", "ondup", TRUE, "string")>>
      [] t = "AddTaskOptions" ->
            <<Tag("Expires", "expires", TRUE, "int"),
              Tag("SavePath", "save_path", FALSE, "string"),
              Tag("SourceURL", "source_url", FALSE, "string"),
              Tag("RateLimit", "rate_limit", TRUE, "int"),
              Tag("Timeout", "timeout", TRUE, "int"),
              Tag("Callback", "callback", TRUE, "string")>>
      [] t = "QueryTaskOptions" ->
            <<Tag("Expires", "expires", TRUE, "int"),
              Tag("TaskIds", "task_ids", FALSE, "string"),
              Tag("OpType", "op_type", FALSE, "int")>>
      [] t = "ListTaskOptions" ->
            <<Tag("Expires", "expires", TRUE, "int"), Tag("Start", "start", TRUE, "int"),
              Tag("Limit", "limit", TRUE, "int"), Tag("Asc", "asc", TRUE, "int"),
              Tag("SourceURL", "source_url", TRUE, "string"),
              Tag("SavePath", "save_path", TRUE, "string"),
              Tag("CreateTime", "create_time", TRUE, "int"),
              Tag("Status", "status", TRUE, "int"),
              Tag("NeedTaskInfo", "need_task_info", TRUE, "int")>>
      [] t = "CancelTaskOptions" ->
            <<Tag("Expires", "expires", TRUE, "int"),
              Tag("TaskId", "task_id", FALSE, "string")>>
      [] t = "ListRecycleOptions" ->
            <<Tag("Start", "start", TRUE, "int"), Tag("Limit", "limit", TRUE, "int")>>
      [] t = "FsIdOpt" -> <<Tag("FsId", "fs_id", FALSE, "string")>>
      [] OTHER -> <<>>

\* the mutant of isEmptyValue that takes no value for empty
isEmptyValueNever(tag, v) == FALSE

\* go-querystring's isEmptyValue: the zero value of the field's type
isEmptyValue(tag, v) == IF tag.kind = "int" THEN v = 0 ELSE v = ""

\* go-querystring's valueString: an integer in decimal, a string as it is
valueString(tag, v) == IF tag.kind = "int" THEN ToString(v) ELSE v

\* go-querystring's reflectValue: one parameter per field, unless omitted
RECURSIVE reflectValue(_, _, _, _)
reflectValue(values, tags, val, i) ==
    IF i > Len(tags) THEN values
    ELSE IF tags[i].omitempty /\ isEmptyValue(tags[i], val[tags[i].field])
         THEN reflectValue(values, tags, val, i + 1)
         ELSE reflectValue(ValuesAdd(values, tags[i].name,
                                     valueString(tags[i], val[tags[i].field])),
                           tags, val, i + 1)

\* query.Values: nothing for a nil pointer or the untyped nil
QueryValues(opt) ==
    IF opt.kind = "nil" \/ opt.isnil THEN NoValues
    ELSE reflectValue(NoValues, Tags(opt.type), opt.val, 1)

(***************************************************************************)
(* pcs.go: the client                                                      *)
(***************************************************************************)
NewClient(accessToken) ==
    [BaseURL     |-> ParseURL(defaultBaseURL),
     UploadURL   |-> ParseURL(uploadBaseURL),
     DownloadURL |-> ParseURL(downloadBaseURL),
     UserAgent   |-> userAgent,
     AccessToken |-> accessToken]

\* Client.addOptions: s with the option set, the token and the method as its query;
\* s unchanged for a nil pointer
addOptions(c, s, method, opt) ==
    IF opt.kind = "ptr" /\ opt.isnil THEN s
    ELSE LET u  == ParseURL(s)
             qs == ValuesSet(ValuesSet(QueryValues(opt), "access_token", c.AccessToken),
                             "method", method)
         IN  URLString([u EXCEPT !.RawQuery = Encode(qs)])

(***************************************************************************)
(* Errors, requests, responses                                             *)
(***************************************************************************)
Err(kind, msg, code, status) == [kind |-> kind, msg |-> msg, code |-> code, status |-> status]

NoErr == Err("nil", "", 0, 0)

LocalErr(msg) == Err("local", msg, 0, 0)

\* what the transport returns when it has no response
TransportErr == Err("transport", "net/http: request failed", 0, 0)

\* a response body: JSON text of an object with the keys in has, or not JSON at all
Body(valid, has, path, md5, msg, code) ==
    [valid |-> valid, has |-> has, path |-> path, md5 |-> md5,
     error_msg |-> msg, error_code |-> code]

EmptyBody == Body(FALSE, {}, "", "", "", 0)

\* an *http.Response: the status, the body the service sent, and the state of the
\* stream resp.Body delivers it through (read to its end, closed)
NoResp == [isnil |-> TRUE, StatusCode |-> 0, Body |-> EmptyBody, Drained |-> FALSE,
           Closed |-> FALSE]

\* the response as the transport returns it: nothing read yet
httpResponse(reply) ==
    [isnil |-> FALSE, StatusCode |-> reply.status, Body |-> reply.body, Drained |-> FALSE,
     Closed |-> FALSE]

\* ioutil.ReadAll(r.Body), json.NewDecoder(resp.Body).Decode and io.Copy(w, resp.Body)
\* read the stream to its end
ReadAll(resp) == [resp EXCEPT !.Drained = TRUE]

\* defer resp.Body.Close()
BodyClose(resp) == [resp EXCEPT !.Closed = TRUE]

NoBody == [kind |-> "none", form |-> <<>>, field |-> "", filename |-> "", bytes |-> <<>>]

\* strings.NewReader(data.Encode())
FormBody(data) == [NoBody EXCEPT !.kind = "form", !.form = Encode(data)]

NoRange == [set |-> FALSE, start |-> 0, end |-> 0]

NoHeader == [UserAgent |-> "", ContentType |-> "", Range |-> NoRange]

\* http.NewRequest: the URL string parsed as it is, no header yet
httpNewRequest(method, urlStr, body) ==
    [Method |-> method, URL |-> ParseURL(urlStr), Header |-> NoHeader, Body |-> body]

\* the zero value of a decoding target
ZeroVal(v) == [type |-> v, path |-> "", md5 |-> "", raw |-> EmptyBody]

\* the mutant of ErrorResponse that decodes nothing unless both keys are present
ErrorResponseAllOrNothing(resp) ==
    Err("api",
        IF resp.Body.valid /\ {"error_msg", "error_code"} \subseteq resp.Body.has
        THEN resp.Body.error_msg ELSE "",
        IF resp.Body.valid /\ {"error_msg", "error_code"} \subseteq resp.Body.has
        THEN resp.Body.error_code ELSE 0,
        resp.StatusCode)

\* json.Unmarshal(data, errorResponse): the keys present, the others left zero
ErrorResponse(resp) ==
    Err("api",
        IF resp.Body.valid /\ "error_msg" \in resp.Body.has THEN resp.Body.error_msg ELSE "",
        IF resp.Body.valid /\ "error_code" \in resp.Body.has THEN resp.Body.error_code ELSE 0,
        resp.StatusCode)

\* the mutant of CheckResponse that takes the redirections for successes
CheckResponseBelow400(resp) ==
    IF 200 <= resp.StatusCode /\ resp.StatusCode <= 399 THEN NoErr ELSE ErrorResponse(resp)

\* CheckResponse: nil for a 2xx status, an *ErrorResponse otherwise
CheckResponse(resp) ==
    IF 200 <= resp.StatusCode /\ resp.StatusCode <= 299 THEN NoErr ELSE ErrorResponse(resp)

\* json.NewDecoder(resp.Body).Decode(v)
JsonDecode(body, v) ==
    IF ~body.valid
    THEN [val |-> ZeroVal(v), err |-> Err("decode", "json: cannot decode the body", 0, 0)]
    ELSE [val |-> [type |-> v,
                   path |-> IF "path" \in body.has THEN body.path ELSE "",
                   md5  |-> IF "md5" \in body.has THEN body.md5 ELSE "",
                   raw  |-> EmptyBody],
          err |-> NoErr]

\* the outcome of a step of a call: the requests handed to the transport so far,
\* and what is returned
Outcome(reqs, val, resp, err) == [reqs |-> reqs, val |-> val, resp |-> resp, err |-> err]

\* the mutant of Do that sends the request a second time when the transport fails
DoRetrying(req, v, reply) ==
    IF reply.neterr THEN Outcome(<<req, req>>, ZeroVal(v), NoResp, TransportErr)
    ELSE LET resp == httpResponse(reply)
             cerr == CheckResponse(resp)
         IN  IF cerr # NoErr THEN Outcome(<<req>>, ZeroVal(v), BodyClose(ReadAll(resp)), cerr)
             ELSE IF v = "nil" THEN Outcome(<<req>>, ZeroVal(v), BodyClose(resp), NoErr)
             ELSE IF v = "writer"
                  THEN Outcome(<<req>>, [ZeroVal(v) EXCEPT !.raw = reply.body],
                               BodyClose(ReadAll(resp)), cerr)
             ELSE IF v = "failingWriter"
                  THEN Outcome(<<req>>, ZeroVal(v), BodyClose(resp), cerr)
                  ELSE LET d == JsonDecode(reply.body, v)
                       IN  Outcome(<<req>>, d.val, BodyClose(ReadAll(resp)), d.err)

\* Client.Do: the request goes to the transport, whose answer is reply; v is "nil",
\* "writer" (an io.Writer), "failingWriter" (an io.Writer whose Write returns an
\* error) or the name of the struct decoded into.  The error of io.Copy is dropped.
Do(req, v, reply) ==
    IF reply.neterr THEN Outcome(<<req>>, ZeroVal(v), NoResp, TransportErr)
    ELSE LET resp == httpResponse(reply)
             cerr == CheckResponse(resp)
         IN  IF cerr # NoErr THEN Outcome(<<req>>, ZeroVal(v), BodyClose(ReadAll(resp)), cerr)
             ELSE IF v = "nil" THEN Outcome(<<req>>, ZeroVal(v), BodyClose(resp), NoErr)
             ELSE IF v = "writer"
                  THEN Outcome(<<req>>, [ZeroVal(v) EXCEPT !.raw = reply.body],
                               BodyClose(ReadAll(resp)), cerr)
             ELSE IF v = "failingWriter"
                  THEN Outcome(<<req>>, ZeroVal(v), BodyClose(resp), cerr)
                  ELSE LET d == JsonDecode(reply.body, v)
                       IN  Outcome(<<req>>, d.val, BodyClose(ReadAll(resp)), d.err)

\* Client.NewRequest: urlStr resolved against BaseURL
NewRequest(c, method, urlStr, body) ==
    LET u   == ResolveReference(c.BaseURL, ParseURL(urlStr))
        req == httpNewRequest(method, URLString(u), body)
    IN  IF c.UserAgent # "" THEN [req EXCEPT !.Header.UserAgent = c.UserAgent] ELSE req

\* Client.Get
Get(c, url, v, reply) == Do(NewRequest(c, "GET", url, NoBody), v, reply)

\* Client.Post: the URL string goes to http.NewRequest as it is
Post(c, url, contentType, body, v, reply) ==
    Do([httpNewRequest("POST", url, body) EXCEPT !.Header.ContentType = contentType],
       v, reply)

\* Client.PostForm
PostForm(c, url, data, v, reply) ==
    Post(c, url, "application/x-www-form-urlencoded", FormBody(data), v, reply)

(***************************************************************************)
(* Digests, JSON text, local files                                         *)
(***************************************************************************)
\* fmt.Sprintf("%x", md5 of bs): a string that names the bytes digested (no two
\* byte sequences of the model share a digest)
Md5Hex(bs) == "md5:" \o ToString(bs)

\* crc32.ChecksumIEEE(bs), likewise
ChecksumIEEE(bs) == "crc32:" \o ToString(bs)

Tok(t, v) == [t |-> t, v |-> v]

\* the items of a JSON array or object, joined by commas
RECURSIVE JoinComma(_)
JoinComma(items) ==
    IF items = <<>> THEN <<>>
    ELSE IF Len(items) = 1 THEN items[1]
    ELSE items[1] \o <<Tok("punct", ",")>> \o JoinComma(Tail(items))

\* json.Marshal of a []string
JsonStrings(strs) ==
    <<Tok("punct", "[")>>
    \o [i \in 1..(IF Len(strs) = 0 THEN 0 ELSE 2 * Len(strs) - 1) |->
            IF i % 2 = 1 THEN Tok("str", strs[(i + 1) \div 2]) ELSE Tok("punct", ",")]
    \o <<Tok("punct", "]")>>

\* json.Marshal of an object with one key
JsonObject(key, valueToks) ==
    <<Tok("punct", "{"), Tok("key", key), Tok("punct", ":")>> \o valueToks
    \o <<Tok("punct", "}")>>

\* json.Marshal of a list of one-key objects {"key": item}
JsonObjects(key, items) ==
    <<Tok("punct", "[")>>
    \o JoinComma([i \in 1..Len(items) |-> JsonObject(key, <<Tok("str", items[i])>>)])
    \o <<Tok("punct", "]")>>

\* json.Marshal of a list of FTPair
JsonPairs(pairs) ==
    <<Tok("punct", "[")>>
    \o JoinComma([i \in 1..Len(pairs) |->
          <<Tok("punct", "{"), Tok("key", "from"), Tok("punct", ":"),
            Tok("str", pairs[i].From), Tok("punct", ","), Tok("key", "to"),
            Tok("punct", ":"), Tok("str", pairs[i].To), Tok("punct", "}")>>])
    \o <<Tok("punct", "]")>>

\* data := url.Values{}; data.Set("param", string(param))
ParamData(param) == ValuesSet(NoValues, "param", param)

\* filepath.Base of a path given by its segments
Base(path) == IF path = <<>> THEN "." ELSE path[Len(path)]

\* a local file as a call finds it: whether os.Open succeeds, the bytes a read of
\* it delivers, and the size file.Stat() reports after the read
LocalFile(exists, content, statSize) ==
    [exists |-> exists, content |-> content, statSize |-> statSize]

NilVal == [type |-> "nil", path |-> "", md5 |-> "", raw |-> EmptyBody]

(***************************************************************************)
(* file.go: the operations                                                 *)
(***************************************************************************)
\* a call that returns (value, response, error): no value with an error
Ret(o) == IF o.err # NoErr THEN [o EXCEPT !.val = NilVal] ELSE o

\* a call that returns (response, error)
RetResp(o) == [o EXCEPT !.val = NilVal]

\* a call that fails before any request is made
Fail(err) == Outcome(<<>>, NilVal, NoResp, err)

GetQuota(c, reply) ==
    Ret(Get(c, addOptions(c, Resource(<<"quota">>), "info", NilOpt), "Quota", reply))

\* Client.upload: the multipart body of the file at path
upload(path, file) ==
    IF ~file.exists
    THEN [body |-> NoBody, contentType |-> "", err |-> LocalErr("open: no such file")]
    ELSE LET written == BLen(file.content)
         IN  IF written # file.statSize
             THEN [body |-> NoBody, contentType |-> "", err |-> LocalErr(ErrIncompleteFile)]
             ELSE [body |-> [NoBody EXCEPT !.kind = "multipart", !.field = "file",
                                           !.filename = Base(path),
                                           !.bytes = file.content],
                   contentType |-> "multipart/form-data",
                   err |-> NoErr]

Upload(c, srcPath, file, opt, reply) ==
    LET up == upload(srcPath, file)
    IN  IF up.err # NoErr THEN Fail(up.err)
        ELSE Ret(Post(c, addOptions(c, Resource(<<"file">>), "upload", opt),
                      up.contentType, up.body, "File", reply))

BlockUpload(c, srcPath, file, reply) ==
    LET up == upload(srcPath, file)
    IN  IF up.err # NoErr THEN Fail(up.err)
        ELSE Ret(Post(c, addOptions(c, Resource(<<"file">>), "upload",
                                    PtrTo("TypeOpt", [Type |-> "tmpfile"])),
                      up.contentType, up.body, "File", reply))

\* the mutant of CreateSuperFile whose limits are off by one
CreateSuperFileOffByOne(c, targetPath, md5, opt, reply) ==
    IF Len(md5) <= MinBlockList \/ Len(md5) >= MaxBlockList
    THEN Fail(LocalErr(ErrInvalidArgument))
    ELSE Ret(PostForm(c, addOptions(c, Resource(<<"file">>), "createsuperfile", opt),
                      ParamData(JsonObject("blocklist", JsonStrings(md5))), "File", reply))

\* the mutant of CreateSuperFile that sends the digests in reverse order
CreateSuperFileReversed(c, targetPath, md5, opt, reply) ==
    IF Len(md5) < MinBlockList \/ Len(md5) > MaxBlockList
    THEN Fail(LocalErr(ErrInvalidArgument))
    ELSE Ret(PostForm(c, addOptions(c, Resource(<<"file">>), "createsuperfile", opt),
                      ParamData(JsonObject("blocklist",
                          JsonStrings([i \in 1..Len(md5) |-> md5[Len(md5) + 1 - i]]))),
                      "File", reply))

CreateSuperFile(c, targetPath, md5, opt, reply) ==
    IF Len(md5) < MinBlockList \/ Len(md5) > MaxBlockList THEN Fail(LocalErr(ErrInvalidArgument))
    ELSE LET param == JsonObject("blocklist", JsonStrings(md5))
             data  == ParamData(param)
             u     == addOptions(c, Resource(<<"file">>), "createsuperfile", opt)
         IN  Ret(PostForm(c, u, data, "File", reply))

Download(c, path, reply) ==
    RetResp(Get(c, addOptions(c, Resource(<<"file">>), "download",
                              PtrTo("PathOpt", [Path |-> path])), "nil", reply))

PartialDownload(c, path, start, end, reply) ==
    IF start >= end THEN Fail(LocalErr(ErrInvalidArgument))
    ELSE LET u   == addOptions(c, Resource(<<"file">>), "download",
                               PtrTo("PathOpt", [Path |-> path]))
             req == NewRequest(c, "GET", u, NoBody)
         IN  RetResp(Do([req EXCEPT !.Header.Range =
                                [set |-> TRUE, start |-> start, end |-> end]],
                        "nil", reply))

Mkdir(c, path, reply) ==
    Ret(PostForm(c, addOptions(c, Resource(<<"file">>), "mkdir",
                               PtrTo("PathOpt", [Path |-> path])),
                 NoValues, "File", reply))

GetMeta(c, path, reply) ==
    Ret(PostForm(c, addOptions(c, Resource(<<"file">>), "meta",
                               PtrTo("PathOpt", [Path |-> path])),
                 NoValues, "FileMeta", reply))

BatchGetMeta(c, paths, reply) ==
    IF Len(paths) = 0 THEN Fail(LocalErr(ErrInvalidArgument))
    ELSE Ret(PostForm(c, addOptions(c, Resource(<<"file">>), "meta", NilOpt),
                      ParamData(JsonObject("list", JsonObjects("path", paths))),
                      "FileMetaList", reply))

ListFiles(c, opt, reply) ==
    Ret(Get(c, addOptions(c, Resource(<<"file">>), "list", opt), "FileList", reply))

Move(c, from, to, reply) ==
    Ret(PostForm(c, addOptions(c, Resource(<<"file">>), "move",
                               PtrTo("FromToOpt", [From |-> from, To |-> to])),
                 NoValues, "MoveCopyResponse", reply))

Copy(c, from, to, reply) ==
    Ret(PostForm(c, addOptions(c, Resource(<<"file">>), "copy",
                               PtrTo("FromToOpt", [From |-> from, To |-> to])),
                 NoValues, "MoveCopyResponse", reply))

Delete(c, path, reply) ==
    RetResp(PostForm(c, addOptions(c, Resource(<<"file">>), "delete",
                                   StructVal("PathOpt", [Path |-> path])),
                     NoValues, "nil", reply))

batchMoveCopyGeneric(c, method, pairs, reply) ==
    Ret(PostForm(c, addOptions(c, Resource(<<"file">>), method, NilOpt),
                 ParamData(JsonObject("list", JsonPairs(pairs))),
                 "MoveCopyResponse", reply))

BatchMove(c, pairs, reply) == batchMoveCopyGeneric(c, "move", pairs, reply)

BatchCopy(c, pairs, reply) == batchMoveCopyGeneric(c, "copy", pairs, reply)

BatchDelete(c, paths, reply) ==
    RetResp(PostForm(c, addOptions(c, Resource(<<"file">>), "delete", NilOpt),
                     ParamData(JsonObject("list", JsonStrings(paths))), "nil", reply))

Search(c, opt, reply) ==
    Ret(Get(c, addOptions(c, Resource(<<"file">>), "search", opt), "FileList", reply))

Thumbnail(c, opt, reply) ==
    RetResp(Get(c, addOptions(c, Resource(<<"thumbnail">>), "generate", opt), "nil", reply))

Diff(c, cursor, reply) ==
    RetResp(Get(c, addOptions(c, Resource(<<"file">>), "diff",
                              PtrTo("CursorOpt", [Cursor |-> cursor])), "nil", reply))

Streaming(c, path, typ, reply) ==
    RetResp(Get(c, addOptions(c, Resource(<<"file">>), "streaming",
                              PtrTo("PathTypeOpt", [Path |-> path, Type |-> typ])),
                "nil", reply))

ListStream(c, opt, reply) ==
    Ret(Get(c, addOptions(c, Resource(<<"stream">>), "list", opt), "StreamFile", reply))

DownloadStream(c, path, reply) ==
    RetResp(Get(c, addOptions(c, Resource(<<"file">>), "download",
                              PtrTo("PathOpt", [Path |-> path])), "nil", reply))

\* the zero value where a digest is returned
NoDigest == ""

NoSum == [contentLen |-> 0, contentMd5 |-> NoDigest, sliceMd5 |-> NoDigest,
          contentCrc32 |-> NoDigest, err |-> NoErr]

SumErr(err) == [NoSum EXCEPT !.err = err]

\* the mutant of SumFile that digests the whole buffer as the slice
SumFileWholeSlice(file) ==
    IF ~file.exists THEN SumErr(LocalErr("open: no such file"))
    ELSE IF BLen(file.content) = 0 THEN SumErr(LocalErr("EOF"))
    ELSE [contentLen   |-> BLen(file.content),
          contentMd5   |-> Md5Hex(file.content),
          sliceMd5     |-> Md5Hex(file.content),
          contentCrc32 |-> ChecksumIEEE(file.content),
          err          |-> NoErr]

\* Client.SumFile: the length, the MD5 and the CRC32 of the whole content, and the
\* MD5 of a slice of minRapidUploadFile bytes that buf.Read fills from the start
SumFile(file) ==
    IF ~file.exists THEN SumErr(LocalErr("open: no such file"))
    ELSE LET buf   == file.content
             n     == Min(BLen(buf), minRapidUploadFile)
             slice == BCat(BTake(buf, n), BDrop(BZeros(minRapidUploadFile), n))
         IN  IF BLen(buf) = 0 THEN SumErr(LocalErr("EOF"))
             ELSE [contentLen   |-> BLen(buf),
                   contentMd5   |-> Md5Hex(buf),
                   sliceMd5     |-> Md5Hex(slice),
                   contentCrc32 |-> ChecksumIEEE(buf),
                   err          |-> NoErr]

\* the mutant of RapidUpload that rejects only the sizes below the minimum
RapidUploadAtLeast(c, opt, reply) ==
    IF opt.isnil THEN Fail(Err("panic", "nil pointer dereference", 0, 0))
    ELSE IF opt.val.ContentLength < minRapidUploadFile
         THEN Fail(LocalErr(ErrMinRapidFileSize))
         ELSE Ret(PostForm(c, addOptions(c, Resource(<<"file">>), "rapidupload", opt),
                           NoValues, "File", reply))

RapidUpload(c, opt, reply) ==
    IF opt.isnil THEN Fail(Err("panic", "nil pointer dereference", 0, 0))
    ELSE IF opt.val.ContentLength <= minRapidUploadFile
         THEN Fail(LocalErr(ErrMinRapidFileSize))
         ELSE Ret(PostForm(c, addOptions(c, Resource(<<"file">>), "rapidupload", opt),
                           NoValues, "File", reply))

AddOfflineDownloadTask(c, opt, reply) ==
    Ret(PostForm(c, addOptions(c, Resource(<<"services", "cloud_dl">>), "add_task", opt),
                 NoValues, "TaskId", reply))

QueryOfflineDownloadTask(c, opt, reply) ==
    RetResp(PostForm(c, addOptions(c, Resource(<<"service", "cloud_dl">>), "query_task", opt),
                     NoValues, "nil", reply))

ListOfflineDownloadTask(c, opt, reply) ==
    RetResp(PostForm(c, addOptions(c, Resource(<<"service", "cloud_dl">>), "list_task", opt),
                     NoValues, "nil", reply))

CancelOfflineDownloadTask(c, opt, reply) ==
    RetResp(PostForm(c, addOptions(c, Resource(<<"service", "cloud_dl">>), "cancel_task", opt),
                     NoValues, "nil", reply))

ListRecycle(c, opt, reply) ==
    Ret(Get(c, addOptions(c, Resource(<<"file">>), "listrecycle", opt),
            "ListRecycleResponse", reply))

Restore(c, fsId, reply) ==
    Ret(PostForm(c, addOptions(c, Resource(<<"file">>), "restore",
                               PtrTo("FsIdOpt", [FsId |-> fsId])),
                 NoValues, "RestoreResponse", reply))

BatchRestore(c, fsIds, reply) ==
    Ret(PostForm(c, addOptions(c, Resource(<<"file">>), "restore", NilOpt),
                 ParamData(JsonObject("list", JsonObjects("fs_id", fsIds))),
                 "RestoreResponse", reply))

EmptyRecycle(c, reply) ==
    RetResp(PostForm(c, addOptions(c, Resource(<<"file">>), "delete",
                                   PtrTo("TypeOpt", [Type |-> "recycle"])),
                     NoValues, "nil", reply))

(***************************************************************************)
(* The inputs tried                                                        *)
(***************************************************************************)
Tokens == {"tok1", "tok2"}

RemotePaths == {"/a", "/b"}

SrcPaths == {<<"a.bin">>, <<"dir", "b.bin">>}

Digests == {"d1", "d2"}

\* every block list of up to MaxShortList digests
ShortLists == UNION {[1..n -> Digests] : n \in 0..MaxShortList}

\* block lists around the upper limit
LongLists ==
    {[i \in 1..n |-> IF i % 2 = 1 THEN "d1" ELSE "d2"] :
        n \in (MaxBlockList - 1)..(MaxBlockList + MaxOver)}

BlockLists == ShortLists \cup LongLists

ByteVals == {0, 7}

RunLens == {1, minRapidUploadFile - 1, minRapidUploadFile, minRapidUploadFile + 1}

Runs == [b : ByteVals, n : RunLens]

\* the contents of up to k runs, in canonical form
ContentsUpTo(k) ==
    {bs \in UNION {[1..m -> Runs] : m \in 0..k} :
        \A i \in 1..(Len(bs) - 1) : bs[i].b # bs[i + 1].b}

Contents == ContentsUpTo(MaxRuns)

MissingFile == LocalFile(FALSE, <<>>, 0)

\* the files SumFile is tried on
SumFiles == {MissingFile} \cup {LocalFile(TRUE, bs, BLen(bs)) : bs \in Contents}

\* the files upload is tried on: missing, unchanged, or changed in size while read
UploadFiles ==
    {MissingFile}
    \cup {LocalFile(TRUE, bs, BLen(bs) + d) : bs \in ContentsUpTo(1), d \in {0, 1}}

FileBody == Body(TRUE, {"path", "md5"}, "/a", "d1", "", 0)

ErrorBody == Body(TRUE, {"error_msg", "error_code"}, "", "", "file does not exist", 31066)

GarbageBody == Body(FALSE, {}, "", "", "", 0)

\* what the transport answers: no response, or a status and a body
Replies ==
    {[neterr |-> TRUE, status |-> 0, body |-> EmptyBody]}
    \cup [neterr : {FALSE}, status : {200, 404}, body : {FileBody, ErrorBody, GarbageBody}]

FileOptionsSet ==
    {NilPtr("FileOptions")}
    \cup {PtrTo("FileOptions", v) :
            v \in [Path : RemotePaths, OnDup : {"", "overwrite", "newcopy"}]}

ListFilesOptionsSet ==
    {NilPtr("ListFilesOptions")}
    \cup {PtrTo("ListFilesOptions", v) :
            v \in [Path : {"/a"}, Order : {"", "asc"}, By : {"", "name"}, Limit : {"", "0-10"}]}

SearchOptionsSet ==
    {NilPtr("SearchOptions")}
    \cup {PtrTo("SearchOptions", v) : v \in [Path : {"/a"}, Word : {"", "w"}, Re : {"", "1"}]}

ThumbnailOptionsSet ==
    {NilPtr("ThumbnailOptions")}
    \cup {PtrTo("ThumbnailOptions", v) :
            v \in [Path : {"/a"}, Quality : {0, 50}, Height : {0, 100}, Width : {100}]}

ListStreamOptionsSet ==
    {NilPtr("ListStreamOptions")}
    \cup {PtrTo("ListStreamOptions", v) :
            v \in [Type : {"video"}, Start : {"", "0"}, Limit : {"", "10"},
                   FilterPath : {"", "/a"}]}

RapidLens ==
    {-1, 0, minRapidUploadFile - 1, minRapidUploadFile, minRapidUploadFile + 1,
     2 * minRapidUploadFile}

RapiduUploadOptionsSet ==
    {NilPtr("RapiduUploadOptions")}
    \cup {PtrTo("RapiduUploadOptions", v) :
            v \in [Path : {"/a"}, ContentLength : RapidLens, ContentMd5 : {"m1"},
                   SliceMd5 : {"s1"}, ContentCrc32 : {"c1"}, Ondup : {"", "overwrite"}]}

AddTaskOptionsSet ==
    {NilPtr("AddTaskOptions")}
    \cup {PtrTo("AddTaskOptions", v) :
            v \in [Expires : {0, 60}, SavePath : {"/a"}, SourceURL : {"http://x"},
                   RateLimit : {0}, Timeout : {0, 3600}, Callback : {""}]}

QueryTaskOptionsSet ==
    {NilPtr("QueryTaskOptions")}
    \cup {PtrTo("QueryTaskOptions", v) :
            v \in [Expires : {0, 60}, TaskIds : {"1,2"}, OpType : {0, 1}]}

ListTaskOptionsSet ==
    {NilPtr("ListTaskOptions")}
    \cup {PtrTo("ListTaskOptions", v) :
            v \in [Expires : {0}, Start : {0, 5}, Limit : {0, 10}, Asc : {0, 1},
                   SourceURL : {""}, SavePath : {"", "/a"}, CreateTime : {0},
                   Status : {0}, NeedTaskInfo : {0, 1}]}

CancelTaskOptionsSet ==
    {NilPtr("CancelTaskOptions")}
    \cup {PtrTo("CancelTaskOptions", v) : v \in [Expires : {0, 60}, TaskId : {"1"}]}

ListRecycleOptionsSet ==
    {NilPtr("ListRecycleOptions")}
    \cup {PtrTo("ListRecycleOptions", v) : v \in [Start : {0, 5}, Limit : {0, 10}]}

PathLists == UNION {[1..n -> RemotePaths] : n \in 0..2}

PairLists == UNION {[1..n -> [From : {"/a"}, To : {"/b", "/c"}]] : n \in 0..2}

Ranges == {-1, 0, 1, 2}

(***************************************************************************)
(* The variant of the client that keeps its three URLs and its query map   *)
(* as fields (part_000, lines 245 on): every method writes to them         *)
(***************************************************************************)
\* NewClient of the variant; calls counts the methods called so far
SharedNewClient(accessToken) ==
    [baseURL     |-> ParseURL(defaultBaseURL),
     uploadURL   |-> ParseURL(uploadBaseURL),
     downloadURL |-> ParseURL(downloadBaseURL),
     query       |-> ValuesSet(NoValues, "access_token", accessToken),
     calls       |-> 0]

\* filepath.Join(path, elem) of a clean path and a name
filepathJoin(path, elem) == Append(path, elem)

\* the text of an encoded query, k=v&k=v (the escaping of the values left out)
RECURSIVE QueryText(_)
QueryText(pairs) ==
    IF pairs = <<>> THEN ""
    ELSE pairs[1].k \o "=" \o pairs[1].v
         \o (IF Len(pairs) > 1 THEN "&" ELSE "") \o QueryText(Tail(pairs))

\* HttpClient.Do of the variant: the body read, then CheckResponse
SharedDo(req, reply) ==
    IF reply.neterr THEN Outcome(<<req>>, NilVal, NoResp, TransportErr)
    ELSE Outcome(<<req>>, NilVal, ReadAll(httpResponse(reply)),
                 CheckResponse(httpResponse(reply)))

\* HttpClient.Get of the variant
SharedGet(url, reply) == SharedDo(httpNewRequest("GET", url, NoBody), reply)

\* HttpClient.Post of the variant
SharedPost(url, contentType, body, reply) ==
    SharedDo([httpNewRequest("POST", url, body) EXCEPT !.Header.ContentType = contentType],
             reply)

\* HttpClient.PostForm of the variant
SharedPostForm(url, data, reply) ==
    SharedPost(url, "application/x-www-form-urlencoded", FormBody(data), reply)

\* if err != nil { return nil, err }; json.Unmarshal(body, v)
SharedUnmarshal(o, v) ==
    IF o.err # NoErr THEN o
    ELSE LET d == JsonDecode(o.resp.Body, v)
         IN  [o EXCEPT !.val = IF d.err = NoErr THEN d.val ELSE NilVal, !.err = d.err]

\* a method of the variant returns: the client as it leaves it, and its results
SharedRet(c, o) == [c |-> [c EXCEPT !.calls = @ + 1], o |-> o]

SharedGetQuota(c, reply) ==
    LET c1 == [c EXCEPT !.baseURL.Path = filepathJoin(@, "quota")]
        c2 == [c1 EXCEPT !.query = ValuesSet(@, "method", "info")]
        c3 == [c2 EXCEPT !.baseURL.RawQuery = Encode(c2.query)]
    IN  SharedRet(c3, SharedUnmarshal(SharedGet(URLString(c3.baseURL), reply), "Quota"))

getOnDup(overwrite) == IF overwrite THEN "overwrite" ELSE "newcopy"

SharedUpload(c, srcPath, file, targetPath, overwrite, reply) ==
    LET c1 == [c EXCEPT !.uploadURL.Path = filepathJoin(@, "file")]
        up == upload(srcPath, file)
        c2 == [c1 EXCEPT !.query = ValuesSet(ValuesSet(ValuesSet(@, "method", "upload"),
                                                       "path", targetPath),
                                             "ondup", getOnDup(overwrite))]
        c3 == [c2 EXCEPT !.uploadURL.RawQuery = Encode(c2.query)]
    IN  IF up.err # NoErr THEN SharedRet(c1, Fail(up.err))
        ELSE SharedRet(c3, SharedUnmarshal(SharedPost(URLString(c3.uploadURL),
                                                      up.contentType, up.body, reply),
                                           "File"))

\* fileOp of the variant, for "delete": the encoded query is assigned to the path
fileOp(c, method, path, reply) ==
    LET c1 == [c EXCEPT !.baseURL.Path = filepathJoin(@, "file")]
        c2 == [c1 EXCEPT !.query = ValuesSet(ValuesSet(@, "method", method), "path", path)]
        c3 == [c2 EXCEPT !.baseURL.Path = <<QueryText(Encode(c2.query))>>]
    IN  SharedRet(c3, SharedPostForm(URLString(c3.baseURL), NoValues, reply))

\* Delete of the variant: the body printed, nil returned unless fileOp failed
SharedDelete(c, path, reply) == fileOp(c, "delete", path, reply)

(***************************************************************************)
(* The state machine: one action per public method                         *)
(***************************************************************************)
\* no file handle open, an empty file on disk, no upload reading it
NoFiles == [handles |-> 0, size |-> 0, pc |-> "idle", openSize |-> 0, off |-> 0,
            written |-> 0]

\* os.Open succeeded and the handle was not closed before the method returned
Leak(files) == [files EXCEPT !.handles = Min(@ + 1, MaxHandles)]

\* NewHttpClient: the timeouts, in seconds, of the http.Client every request goes
\* through; 0 where none is set (Transport.ResponseHeaderTimeout and Client.Timeout
\* are left at their zero values)
NewHttpClient ==
    [DialTimeout |-> 30, TLSHandshakeTimeout |-> 10, ResponseHeaderTimeout |-> 0,
     Timeout |-> 0]

\* no request in flight
NoNet == [pc |-> "idle", op |-> "", path |-> "", reply |-> [neterr |-> TRUE, status |-> 0,
                                                           body |-> EmptyBody]]

\* no block upload
NoBlockUpload == [n |-> 0, wk |-> <<>>, files |-> <<>>, list |-> <<>>, order |-> <<>>]

NoCall(t) ==
    [op |-> "NewClient", args |-> [accessToken |-> t], reqs |-> <<>>, val |-> NilVal,
     resp |-> NoResp, err |-> NoErr, sum |-> NoSum]

Init ==
    \E t \in Tokens :
        /\ client = NewClient(t)
        /\ call = NoCall(t)
        /\ prev = NoCall(t)
        /\ bu = NoBlockUpload
        /\ fs = NoFiles
        /\ shared = SharedNewClient(t)
        /\ net = NoNet

\* no call is in progress and the last one's record has been taken
Idle == call.op = "NewClient"

\* the mutant of Returns in which the method keeps the URL it resolved as the
\* client's BaseURL
ReturnsMovingBase(op, args, o) ==
    /\ call' = [op |-> op, args |-> args, reqs |-> o.reqs, val |-> o.val,
                resp |-> o.resp, err |-> o.err, sum |-> NoSum]
    /\ client' = IF o.reqs # <<>> THEN [client EXCEPT !.BaseURL = o.reqs[1].URL] ELSE client
    /\ UNCHANGED <<prev, bu, fs, shared, net>>

\* the call returns: what it was, what it handed to the transport, what it returned;
\* no method assigns to a field of the client
Returns(op, args, o) ==
    /\ call' = [op |-> op, args |-> args, reqs |-> o.reqs, val |-> o.val,
                resp |-> o.resp, err |-> o.err, sum |-> NoSum]
    /\ UNCHANGED <<client, prev, bu, fs, shared, net>>

CallGetQuota ==
    /\ Idle
    /\ \E reply \in Replies : Returns("GetQuota", [none |-> TRUE], GetQuota(client, reply))

CallUpload ==
    /\ Idle
    /\ \E srcPath \in SrcPaths, file \in UploadFiles, opt \in FileOptionsSet, reply \in Replies :
        Returns("Upload", [srcPath |-> srcPath, file |-> file, opt |-> opt],
                Upload(client, srcPath, file, opt, reply))

CallBlockUpload ==
    /\ Idle
    /\ \E srcPath \in SrcPaths, file \in UploadFiles, reply \in Replies :
        Returns("BlockUpload", [srcPath |-> srcPath, file |-> file],
                BlockUpload(client, srcPath, file, reply))

CallCreateSuperFile ==
    /\ Idle
    /\ \E targetPath \in RemotePaths, md5 \in BlockLists, opt \in FileOptionsSet,
       reply \in Replies :
        Returns("CreateSuperFile", [targetPath |-> targetPath, md5 |-> md5, opt |-> opt],
                CreateSuperFile(client, targetPath, md5, opt, reply))

CallDownload ==
    /\ Idle
    /\ \E path \in RemotePaths, reply \in Replies :
        Returns("Download", [path |-> path], Download(client, path, reply))

CallPartialDownload ==
    /\ Idle
    /\ \E path \in RemotePaths, start \in Ranges, end \in Ranges, reply \in Replies :
        Returns("PartialDownload", [path |-> path, start |-> start, end |-> end],
                PartialDownload(client, path, start, end, reply))

CallMkdir ==
    /\ Idle
    /\ \E path \in RemotePaths, reply \in Replies :
        Returns("Mkdir", [path |-> path], Mkdir(client, path, reply))

CallGetMeta ==
    /\ Idle
    /\ \E path \in RemotePaths, reply \in Replies :
        Returns("GetMeta", [path |-> path], GetMeta(client, path, reply))

CallBatchGetMeta ==
    /\ Idle
    /\ \E paths \in PathLists, reply \in Replies :
        Returns("BatchGetMeta", [paths |-> paths], BatchGetMeta(client, paths, reply))

CallListFiles ==
    /\ Idle
    /\ \E opt \in ListFilesOptionsSet, reply \in Replies :
        Returns("ListFiles", [opt |-> opt], ListFiles(client, opt, reply))

CallMove ==
    /\ Idle
    /\ \E from \in RemotePaths, to \in RemotePaths, reply \in Replies :
        Returns("Move", [from |-> from, to |-> to], Move(client, from, to, reply))

CallCopy ==
    /\ Idle
    /\ \E from \in RemotePaths, to \in RemotePaths, reply \in Replies :
        Returns("Copy", [from |-> from, to |-> to], Copy(client, from, to, reply))

CallDelete ==
    /\ Idle
    /\ \E path \in RemotePaths, reply \in Replies :
        Returns("Delete", [path |-> path], Delete(client, path, reply))

CallBatchMove ==
    /\ Idle
    /\ \E pairs \in PairLists, reply \in Replies :
        Returns("BatchMove", [pairs |-> pairs], BatchMove(client, pairs, reply))

CallBatchCopy ==
    /\ Idle
    /\ \E pairs \in PairLists, reply \in Replies :
        Returns("BatchCopy", [pairs |-> pairs], BatchCopy(client, pairs, reply))

CallBatchDelete ==
    /\ Idle
    /\ \E paths \in PathLists, reply \in Replies :
        Returns("BatchDelete", [paths |-> paths], BatchDelete(client, paths, reply))

CallSearch ==
    /\ Idle
    /\ \E opt \in SearchOptionsSet, reply \in Replies :
        Returns("Search", [opt |-> opt], Search(client, opt, reply))

CallThumbnail ==
    /\ Idle
    /\ \E opt \in ThumbnailOptionsSet, reply \in Replies :
        Returns("Thumbnail", [opt |-> opt], Thumbnail(client, opt, reply))

CallDiff ==
    /\ Idle
    /\ \E cursor \in {"null", "c1"}, reply \in Replies :
        Returns("Diff", [cursor |-> cursor], Diff(client, cursor, reply))

CallStreaming ==
    /\ Idle
    /\ \E path \in RemotePaths, typ \in {"M3U8_320_240"}, reply \in Replies :
        Returns("Streaming", [path |-> path, typ |-> typ],
                Streaming(client, path, typ, reply))

CallListStream ==
    /\ Idle
    /\ \E opt \in ListStreamOptionsSet, reply \in Replies :
        Returns("ListStream", [opt |-> opt], ListStream(client, opt, reply))

CallDownloadStream ==
    /\ Idle
    /\ \E path \in RemotePaths, reply \in Replies :
        Returns("DownloadStream", [path |-> path], DownloadStream(client, path, reply))

CallSumFile ==
    /\ Idle
    /\ \E file \in SumFiles :
        /\ call' = [op |-> "SumFile", args |-> [file |-> file], reqs |-> <<>>,
                    val |-> NilVal, resp |-> NoResp, err |-> SumFile(file).err,
                    sum |-> SumFile(file)]
        /\ fs' = IF file.exists THEN Leak(fs) ELSE fs
        /\ UNCHANGED <<client, prev, bu, shared, net>>

CallRapidUpload ==
    /\ Idle
    /\ \E opt \in RapiduUploadOptionsSet, reply \in Replies :
        Returns("RapidUpload", [opt |-> opt], RapidUpload(client, opt, reply))

CallAddOfflineDownloadTask ==
    /\ Idle
    /\ \E opt \in AddTaskOptionsSet, reply \in Replies :
        Returns("AddOfflineDownloadTask", [opt |-> opt],
                AddOfflineDownloadTask(client, opt, reply))

CallQueryOfflineDownloadTask ==
    /\ Idle
    /\ \E opt \in QueryTaskOptionsSet, reply \in Replies :
        Returns("QueryOfflineDownloadTask", [opt |-> opt],
                QueryOfflineDownloadTask(client, opt, reply))

CallListOfflineDownloadTask ==
    /\ Idle
    /\ \E opt \in ListTaskOptionsSet, reply \in Replies :
        Returns("ListOfflineDownloadTask", [opt |-> opt],
                ListOfflineDownloadTask(client, opt, reply))

CallCancelOfflineDownloadTask ==
    /\ Idle
    /\ \E opt \in CancelTaskOptionsSet, reply \in Replies :
        Returns("CancelOfflineDownloadTask", [opt |-> opt],
                CancelOfflineDownloadTask(client, opt, reply))

CallListRecycle ==
    /\ Idle
    /\ \E opt \in ListRecycleOptionsSet, reply \in Replies :
        Returns("ListRecycle", [opt |-> opt], ListRecycle(client, opt, reply))

CallRestore ==
    /\ Idle
    /\ \E fsId \in {"1", "2"}, reply \in Replies :
        Returns("Restore", [fsId |-> fsId], Restore(client, fsId, reply))

CallBatchRestore ==
    /\ Idle
    /\ \E fsIds \in UNION {[1..n -> {"1", "2"}] : n \in 0..2}, reply \in Replies :
        Returns("BatchRestore", [fsIds |-> fsIds], BatchRestore(client, fsIds, reply))

CallEmptyRecycle ==
    /\ Idle
    /\ \E reply \in Replies : Returns("EmptyRecycle", [none |-> TRUE], EmptyRecycle(client, reply))

\* the caller takes the results of the last call; the client is ready for the next
Forget ==
    /\ ~Idle
    /\ call' = NoCall(client.AccessToken)
    /\ UNCHANGED <<client, prev, bu, fs, shared, net>>

Next ==
    \/ CallGetQuota
    \/ CallUpload
    \/ CallBlockUpload
    \/ CallCreateSuperFile
    \/ CallDownload
    \/ CallPartialDownload
    \/ CallMkdir
    \/ CallGetMeta
    \/ CallBatchGetMeta
    \/ CallListFiles
    \/ CallMove
    \/ CallCopy
    \/ CallDelete
    \/ CallBatchMove
    \/ CallBatchCopy
    \/ CallBatchDelete
    \/ CallSearch
    \/ CallThumbnail
    \/ CallDiff
    \/ CallStreaming
    \/ CallListStream
    \/ CallDownloadStream
    \/ CallSumFile
    \/ CallRapidUpload
    \/ CallAddOfflineDownloadTask
    \/ CallQueryOfflineDownloadTask
    \/ CallListOfflineDownloadTask
    \/ CallCancelOfflineDownloadTask
    \/ CallListRecycle
    \/ CallRestore
    \/ CallBatchRestore
    \/ CallEmptyRecycle
    \/ Forget

Spec == Init /\ [][Next]_vars

(***************************************************************************)
(* SumFile on two files, one after the other                               *)
(***************************************************************************)
SecondSumFile ==
    /\ prev.op = "NewClient"
    /\ \E file \in SumFiles :
        /\ call' = [op |-> "SumFile", args |-> [file |-> file], reqs |-> <<>>,
                    val |-> NilVal, resp |-> NoResp, err |-> SumFile(file).err,
                    sum |-> SumFile(file)]
        /\ prev' = call
        /\ fs' = IF file.exists THEN Leak(fs) ELSE fs
        /\ UNCHANGED <<client, bu, shared, net>>

NextSum == SecondSumFile

SpecSum == Init /\ [][NextSum]_vars

(***************************************************************************)
(* What the claims speak of                                                *)
(***************************************************************************)
\* the API method name of each public method
ApiMethod(op) ==
    CASE op = "GetQuota" -> "info"
      [] op \in {"Upload", "BlockUpload"} -> "upload"
      [] op = "CreateSuperFile" -> "createsuperfile"
      [] op \in {"Download", "PartialDownload", "DownloadStream"} -> "download"
      [] op = "Mkdir" -> "mkdir"
      [] op \in {"GetMeta", "BatchGetMeta"} -> "meta"
      [] op \in {"ListFiles", "ListStream"} -> "list"
      [] op \in {"Move", "BatchMove"} -> "move"
      [] op \in {"Copy", "BatchCopy"} -> "copy"
      [] op \in {"Delete", "BatchDelete", "EmptyRecycle"} -> "delete"
      [] op = "Search" -> "search"
      [] op = "Thumbnail" -> "generate"
      [] op = "Diff" -> "diff"
      [] op = "Streaming" -> "streaming"
      [] op = "RapidUpload" -> "rapidupload"
      [] op = "AddOfflineDownloadTask" -> "add_task"
      [] op = "QueryOfflineDownloadTask" -> "query_task"
      [] op = "ListOfflineDownloadTask" -> "list_task"
      [] op = "CancelOfflineDownloadTask" -> "cancel_task"
      [] op = "ListRecycle" -> "listrecycle"
      [] op \in {"Restore", "BatchRestore"} -> "restore"
      [] OTHER -> ""

\* the resource path segment of each public method
ApiResource(op) ==
    CASE op = "GetQuota" -> <<"quota">>
      [] op = "Thumbnail" -> <<"thumbnail">>
      [] op = "ListStream" -> <<"stream">>
      [] op = "AddOfflineDownloadTask" -> <<"services", "cloud_dl">>
      [] op \in {"QueryOfflineDownloadTask", "ListOfflineDownloadTask",
                 "CancelOfflineDownloadTask"} -> <<"service", "cloud_dl">>
      [] OTHER -> <<"file">>

\* the base endpoint of the semantic role of each public method
RoleURL(op) ==
    CASE op \in {"Upload", "BlockUpload"} -> client.UploadURL
      [] op \in {"Download", "PartialDownload", "DownloadStream"} -> client.DownloadURL
      [] OTHER -> client.BaseURL

\* the values of parameter k in an encoded query
ParamValues(q, k) == [i \in 1..Len(SelectSeq(q, LAMBDA p : p.k = k)) |->
                        SelectSeq(q, LAMBDA p : p.k = k)[i].v]

\* C1: the URL of every request sent carries access_token, equal to the client's
\* AccessToken, and method, equal to the operation's API method name, each exactly
\* once, whatever option set the operation was given (a nil pointer included).
C1_TokenAndMethodOnce ==
    \A i \in 1..Len(call.reqs) :
        /\ ParamValues(call.reqs[i].URL.RawQuery, "access_token") = <<client.AccessToken>>
        /\ ParamValues(call.reqs[i].URL.RawQuery, "method") = <<ApiMethod(call.op)>>

\* C2: every request goes to the base endpoint of its operation's role: the upload
\* endpoint for Upload and BlockUpload, the download endpoint for Download,
\* PartialDownload and DownloadStream, the control endpoint for the rest.
C2_EndpointByRole ==
    \A i \in 1..Len(call.reqs) :
        /\ call.reqs[i].URL.Scheme = RoleURL(call.op).Scheme
        /\ call.reqs[i].URL.Host = RoleURL(call.op).Host

\* C3: every request handed to the transport has a fully qualified URL: the scheme
\* and host of a base endpoint, then the complete base path /rest/2.0/pcs, then the
\* operation's resource path segment.
C3_FullyQualifiedURL ==
    \A i \in 1..Len(call.reqs) :
        /\ call.reqs[i].URL.Scheme = "https"
        /\ call.reqs[i].URL.Host \in {"pcs.baidu.com", "c.pcs.baidu.com", "d.pcs.baidu.com"}
        /\ call.reqs[i].URL.Path = <<"", "rest", "2.0", "pcs">> \o ApiResource(call.op)

\* C4: the merge request of CreateSuperFile(targetPath, md5, opt) carries targetPath
\* as its path parameter, and the overwrite-or-copy disposition, for every opt.
C4_MergeCarriesTargetPath ==
    (call.op = "CreateSuperFile" /\ call.reqs # <<>>) =>
        /\ ParamValues(call.reqs[1].URL.RawQuery, "path") = <<call.args.targetPath>>
        /\ Len(ParamValues(call.reqs[1].URL.RawQuery, "ondup")) = 1

\* C5: CreateSuperFile returns ErrInvalidArgument and hands no request to the
\* transport when the block list has fewer than 2 or more than 1024 entries; for
\* 2 to 1024 entries it is not rejected and exactly one request is handed over.
C5_BlockListLimits ==
    call.op = "CreateSuperFile" =>
        IF Len(call.args.md5) < 2 \/ Len(call.args.md5) > 1024
        THEN call.err = LocalErr(ErrInvalidArgument) /\ call.reqs = <<>>
        ELSE /\ call.err # LocalErr(ErrInvalidArgument)
             /\ Len(call.reqs) = 1
             /\ call.reqs[1].Method = "POST"

C5_Witness ==
    /\ call.op = "CreateSuperFile"
    /\ Len(call.args.md5) = 1024
    /\ Len(call.reqs) = 1

\* C6: RapidUpload returns ErrMinRapidFileSize and hands no request to the transport
\* for every content length of at most 262144; for every greater length it is not
\* rejected and one request is handed over.
C6_RapidUploadThreshold ==
    (call.op = "RapidUpload" /\ ~call.args.opt.isnil) =>
        IF call.args.opt.val.ContentLength <= 262144
        THEN call.err = LocalErr(ErrMinRapidFileSize) /\ call.reqs = <<>>
        ELSE /\ call.err # LocalErr(ErrMinRapidFileSize)
             /\ Len(call.reqs) = 1

C6_Witness ==
    /\ call.op = "RapidUpload"
    /\ ~call.args.opt.isnil
    /\ call.args.opt.val.ContentLength = 262145
    /\ Len(call.reqs) = 1

\* C7: for every file of at most 262144 bytes that SumFile does not fail on, the
\* slice is the whole file: sliceMd5 equals contentMd5.
C7_ShortFileSliceIsWhole ==
    (call.op = "SumFile" /\ call.err = NoErr /\ call.sum.contentLen <= 262144) =>
        call.sum.sliceMd5 = call.sum.contentMd5

\* C8: two files longer than 262144 bytes that agree on their first 262144 bytes
\* get the same sliceMd5, the digest of those bytes, while contentLen, contentMd5
\* and contentCrc32 are those of the whole content.
C8_SliceIgnoresTail ==
    /\ (call.op = "SumFile" /\ call.err = NoErr /\ BLen(call.args.file.content) > 262144) =>
          /\ call.sum.sliceMd5 = Md5Hex(BTake(call.args.file.content, 262144))
          /\ call.sum.contentLen = BLen(call.args.file.content)
          /\ call.sum.contentMd5 = Md5Hex(call.args.file.content)
          /\ call.sum.contentCrc32 = ChecksumIEEE(call.args.file.content)
    /\ (/\ call.op = "SumFile" /\ prev.op = "SumFile"
        /\ call.err = NoErr /\ prev.err = NoErr
        /\ BLen(call.args.file.content) > 262144
        /\ BLen(prev.args.file.content) > 262144
        /\ BTake(call.args.file.content, 262144) = BTake(prev.args.file.content, 262144)) =>
          call.sum.sliceMd5 = prev.sum.sliceMd5

C8_Witness ==
    /\ call.op = "SumFile" /\ prev.op = "SumFile"
    /\ call.err = NoErr /\ prev.err = NoErr
    /\ BLen(call.args.file.content) > 262144
    /\ BLen(prev.args.file.content) > 262144
    /\ call.args.file.content # prev.args.file.content
    /\ BTake(call.args.file.content, 262144) = BTake(prev.args.file.content, 262144)
    /\ call.sum.sliceMd5 = prev.sum.sliceMd5
    /\ call.sum.contentMd5 # prev.sum.contentMd5

\* the JSON text toks is an object with the sole key blocklist, whose array holds
\* the strings of list, in order
IsBlockListJson(toks, list) ==
    /\ Len(toks) = 6 + (IF Len(list) = 0 THEN 0 ELSE 2 * Len(list) - 1)
    /\ SubSeq(toks, 1, 4) = <<Tok("punct", "{"), Tok("key", "blocklist"),
                              Tok("punct", ":"), Tok("punct", "[")>>
    /\ SubSeq(toks, Len(toks) - 1, Len(toks)) = <<Tok("punct", "]"), Tok("punct", "}")>>
    /\ \A i \in 1..Len(list) : toks[3 + 2 * i] = Tok("str", list[i])
    /\ \A i \in 1..(Len(list) - 1) : toks[4 + 2 * i] = Tok("punct", ",")

\* C9: the body of the merge request is form-encoded with the single parameter
\* param, a JSON object whose sole key blocklist holds exactly the caller's
\* digests, in the same order and with the same multiplicity.
C9_MergeBodyKeepsBlockList ==
    (call.op = "CreateSuperFile" /\ call.reqs # <<>>) =>
        /\ call.reqs[1].Header.ContentType = "application/x-www-form-urlencoded"
        /\ call.reqs[1].Body.kind = "form"
        /\ Len(call.reqs[1].Body.form) = 1
        /\ call.reqs[1].Body.form[1].k = "param"
        /\ IsBlockListJson(call.reqs[1].Body.form[1].v, call.args.md5)

C9_Witness ==
    /\ call.op = "CreateSuperFile"
    /\ call.args.md5 = <<"d2", "d1", "d2">>
    /\ call.reqs # <<>>
    /\ IsBlockListJson(call.reqs[1].Body.form[1].v, <<"d2", "d1", "d2">>)

(***************************************************************************)
(* A block upload: the chunks of one file go up through concurrent calls   *)
(* of BlockUpload, then CreateSuperFile merges them.  The repository has   *)
(* no caller of its own; the one here does what section 5 of the           *)
(* specification asks of it: it records the digest a chunk's call returned *)
(* at the chunk's index.  A call of BlockUpload is three steps: the        *)
(* request goes to the transport, the transport answers, the call returns. *)
(***************************************************************************)
\* the most chunks a block upload is tried with
MaxChunks == 3

\* chunk i of the file: the chunks of equal parity are equal
ChunkContent(i) == <<[b |-> 7, n |-> (i % 2) + 1]>>

ChunkPath(i) == <<"chunks", ToString(i)>>

ChunkFile(i) == LocalFile(TRUE, ChunkContent(i), BLen(ChunkContent(i)))

NoReply == [neterr |-> TRUE, status |-> 0, body |-> EmptyBody]

\* the mutant of FileOf in which the calls share one File
FileOfShared(i) == 1

\* f := new(File): the File that call i decodes into and returns is its own
FileOf(i) == i

\* the caller starts a block upload of n chunks
BuBegin ==
    /\ Idle
    /\ bu.n = 0
    /\ \E n \in 2..MaxChunks :
        bu' = [n     |-> n,
               wk    |-> [i \in 1..n |-> [pc |-> "start", req |-> <<>>, reply |-> NoReply]],
               files |-> [i \in 1..n |-> NilVal],
               list  |-> [i \in 1..n |-> NoDigest],
               order |-> <<>>]
    /\ UNCHANGED <<client, call, prev, fs, shared, net>>

\* call i of BlockUpload builds its body and hands its request to the transport
BuSend(i) ==
    /\ bu.wk[i].pc = "start"
    /\ bu' = [bu EXCEPT !.wk[i].pc = "sent",
                        !.wk[i].req = BlockUpload(client, ChunkPath(i), ChunkFile(i),
                                                  NoReply).reqs]
    /\ UNCHANGED <<client, call, prev, fs, shared, net>>

\* the service's answer to an upload: the digest of the bytes it received
ServiceReplies(req) ==
    {NoReply,
     [neterr |-> FALSE, status |-> 200,
      body |-> Body(TRUE, {"path", "md5"}, "/tmp", Md5Hex(req.Body.bytes), "", 0)],
     [neterr |-> FALSE, status |-> 404, body |-> ErrorBody]}

\* the transport answers the request of call i
BuReply(i) ==
    /\ bu.wk[i].pc = "sent"
    /\ \E reply \in ServiceReplies(bu.wk[i].req[1]) :
        bu' = [bu EXCEPT !.wk[i].pc = "replied", !.wk[i].reply = reply]
    /\ UNCHANGED <<client, call, prev, fs, shared, net>>

\* call i of BlockUpload returns: its File, decoded from the answer, or an error
BuReturn(i) ==
    /\ bu.wk[i].pc = "replied"
    /\ LET o == BlockUpload(client, ChunkPath(i), ChunkFile(i), bu.wk[i].reply)
       IN  IF o.err # NoErr
           THEN bu' = [bu EXCEPT !.wk[i].pc = "failed", !.order = Append(@, i)]
           ELSE bu' = [bu EXCEPT !.wk[i].pc = "returned", !.order = Append(@, i),
                                 !.files[FileOf(i)] = o.val]
    /\ UNCHANGED <<client, call, prev, fs, shared, net>>

\* the caller records the digest of the File call i returned, at index i
BuRecord(i) ==
    /\ bu.wk[i].pc = "returned"
    /\ bu' = [bu EXCEPT !.wk[i].pc = "recorded", !.list[i] = bu.files[FileOf(i)].md5]
    /\ UNCHANGED <<client, call, prev, fs, shared, net>>

\* every chunk has its digest recorded: the caller merges
BuMerge ==
    /\ Idle
    /\ bu.n > 0
    /\ \A i \in 1..bu.n : bu.wk[i].pc = "recorded"
    /\ \E reply \in {NoReply, [neterr |-> FALSE, status |-> 200, body |-> FileBody]} :
        LET opt == PtrTo("FileOptions", [Path |-> "/a", OnDup |-> "overwrite"])
            o   == CreateSuperFile(client, "/a", bu.list, opt, reply)
        IN  call' = [op |-> "CreateSuperFile",
                     args |-> [targetPath |-> "/a", md5 |-> bu.list, opt |-> opt],
                     reqs |-> o.reqs, val |-> o.val, resp |-> o.resp, err |-> o.err,
                     sum |-> NoSum]
    /\ UNCHANGED <<client, prev, bu, fs, shared, net>>

NextBlock ==
    \/ BuBegin
    \/ \E i \in 1..bu.n : BuSend(i)
    \/ \E i \in 1..bu.n : BuReply(i)
    \/ \E i \in 1..bu.n : BuReturn(i)
    \/ \E i \in 1..bu.n : BuRecord(i)
    \/ BuMerge

SpecBlock == Init /\ [][NextBlock]_vars

FirstCreateSuperFile ==
    /\ Idle
    /\ prev.op = "NewClient"
    /\ \E targetPath \in RemotePaths, md5 \in ShortLists, opt \in FileOptionsSet,
       reply \in Replies :
        Returns("CreateSuperFile", [targetPath |-> targetPath, md5 |-> md5, opt |-> opt],
                CreateSuperFile(client, targetPath, md5, opt, reply))

\* the caller keeps the record of the merge it may retry
KeepMerge ==
    /\ call.op = "CreateSuperFile"
    /\ prev.op = "NewClient"
    /\ prev' = call
    /\ call' = NoCall(client.AccessToken)
    /\ UNCHANGED <<client, bu, fs, shared, net>>

\* the retry: CreateSuperFile with the block list and the target path of the merge kept
RetryCreateSuperFile ==
    /\ Idle
    /\ prev.op = "CreateSuperFile"
    /\ \E opt \in FileOptionsSet, reply \in Replies :
        LET o == CreateSuperFile(client, prev.args.targetPath, prev.args.md5, opt, reply)
        IN  call' = [op |-> "CreateSuperFile",
                     args |-> [targetPath |-> prev.args.targetPath, md5 |-> prev.args.md5,
                               opt |-> opt],
                     reqs |-> o.reqs, val |-> o.val, resp |-> o.resp, err |-> o.err,
                     sum |-> NoSum]
    /\ UNCHANGED <<client, prev, bu, fs, shared, net>>

NextRetry ==
    \/ FirstCreateSuperFile
    \/ KeepMerge
    \/ CallGetQuota
    \/ CallMkdir
    \/ RetryCreateSuperFile
    \/ Forget

SpecRetry == Init /\ [][NextRetry]_vars

\* the overwrite-or-copy disposition a call of CreateSuperFile was given
Disposition(opt) == IF opt.isnil THEN "" ELSE opt.val.OnDup

\* C11: two calls of CreateSuperFile with the same block list, target path and
\* disposition send the same request (URL and form body), whatever ran in between,
\* and return the same File record when the service gives them the same answer.
C11_MergeRetrySameRequest ==
    (/\ prev.op = "CreateSuperFile" /\ call.op = "CreateSuperFile"
     /\ prev.args.targetPath = call.args.targetPath
     /\ prev.args.md5 = call.args.md5
     /\ Disposition(prev.args.opt) = Disposition(call.args.opt)) =>
        /\ call.reqs = prev.reqs
        /\ (call.resp = prev.resp => (call.val = prev.val /\ call.err = prev.err))

(***************************************************************************)
(* Client.Do called on its own, over the statuses, the bodies and the      *)
(* targets it tells apart                                                  *)
(***************************************************************************)
\* the statuses tried: every status of the classes 1xx to 5xx
Statuses == 100..599

\* the bodies tried: a File, every error object with or without its two keys, and text
\* that is not JSON
DoBodies ==
    {FileBody, GarbageBody}
    \cup {Body(TRUE, has, "", "", "file does not exist", 31066) :
            has \in SUBSET {"error_msg", "error_code"}}

DoReplies ==
    {[neterr |-> TRUE, status |-> 0, body |-> EmptyBody]}
    \cup [neterr : {FALSE}, status : Statuses, body : DoBodies]

\* the targets tried
DoTargets == {"nil", "writer", "failingWriter", "File"}

CallDo ==
    /\ Idle
    /\ \E method \in {"GET", "POST"}, v \in DoTargets, reply \in DoReplies :
        LET req == NewRequest(client, method,
                              addOptions(client, Resource(<<"file">>), "meta", NilOpt), NoBody)
        IN  Returns("Do", [req |-> req, v |-> v, reply |-> reply], Do(req, v, reply))

NextDo ==
    \/ CallDo
    \/ Forget

SpecDo == Init /\ [][NextDo]_vars

\* C12: CheckResponse returns no error exactly when the status is in 200..299; for
\* every other status Do returns the error of CheckResponse and decodes nothing into
\* the caller's target.
C12_SuccessIs2xx ==
    (call.op = "Do" /\ ~call.args.reply.neterr) =>
        IF 200 <= call.args.reply.status /\ call.args.reply.status <= 299
        THEN /\ CheckResponse(httpResponse(call.args.reply)) = NoErr
             /\ call.err.kind # "api"
        ELSE /\ CheckResponse(httpResponse(call.args.reply)) # NoErr
             /\ call.err.kind = "api"
             /\ call.val = ZeroVal(call.args.v)

\* a redirection answered with a File object: an error, and nothing decoded
C12_Witness ==
    /\ call.op = "Do"
    /\ call.args.reply.status = 300
    /\ call.args.reply.body = FileBody
    /\ call.args.v = "File"
    /\ call.err.kind = "api"
    /\ call.val = ZeroVal("File")

\* C13: for a non-2xx response whose body is a JSON object, the error returned is
\* an ErrorResponse whose Message is the body's error_msg and whose Code is the
\* body's error_code; a key the body lacks leaves its field at the zero value while
\* the other is still decoded.
C13_ErrorObjectDecoded ==
    (/\ call.op = "Do" /\ ~call.args.reply.neterr
     /\ ~(200 <= call.args.reply.status /\ call.args.reply.status <= 299)
     /\ call.args.reply.body.valid) =>
        /\ call.err.kind = "api"
        /\ call.err.status = call.args.reply.status
        /\ call.err.msg = (IF "error_msg" \in call.args.reply.body.has
                           THEN call.args.reply.body.error_msg ELSE "")
        /\ call.err.code = (IF "error_code" \in call.args.reply.body.has
                            THEN call.args.reply.body.error_code ELSE 0)

\* status 404 with {"error_code": 31066} alone: the code decoded, the message empty
C13_Witness ==
    /\ call.op = "Do"
    /\ call.args.reply.status = 404
    /\ call.args.reply.body.valid
    /\ call.args.reply.body.has = {"error_code"}
    /\ call.err = Err("api", "", 31066, 404)

\* whether a read of resp.Body still delivers the body after Do has returned
BodyReadable(resp) == ~resp.isnil /\ ~resp.Drained /\ ~resp.Closed

\* C14: for a non-2xx response whose body does not parse as the error object, what
\* Do returns still surfaces the status and the raw body: the caller can read the
\* unparsed body after the call returns.
C14_RawBodySurfaced ==
    (/\ call.op = "Do" /\ ~call.args.reply.neterr
     /\ ~(200 <= call.args.reply.status /\ call.args.reply.status <= 299)
     /\ ~call.args.reply.body.valid) =>
        /\ call.err.status = call.args.reply.status
        /\ call.resp.StatusCode = call.args.reply.status
        /\ BodyReadable(call.resp)

\* C20: no error inside Do is swallowed: when the transport fails, the status is
\* not 2xx, the copy of a 2xx body into the io.Writer fails or a 2xx body does not
\* decode into the target, Do returns a non-nil error.
C20_NoErrorSwallowed ==
    (/\ call.op = "Do"
     /\ \/ call.args.reply.neterr
        \/ ~(200 <= call.args.reply.status /\ call.args.reply.status <= 299)
        \/ call.args.v = "failingWriter"
        \/ (call.args.v = "File" /\ ~call.args.reply.body.valid)) =>
        call.err # NoErr

(***************************************************************************)
(* Client.upload step by step, while another process changes the file.     *)
(* The file is a number of blocks; io.Copy reads it block by block until   *)
(* a read finds no more; file.Stat() is called after the copy.             *)
(***************************************************************************)
\* the file has at most MaxFileLen blocks
MaxFileLen == 3

\* the content of n blocks read
UpContent(n) == IF n = 0 THEN <<>> ELSE <<[b |-> 7, n |-> n]>>

\* another process appends a block to the file
FileAppend ==
    /\ fs.size < MaxFileLen
    /\ fs' = [fs EXCEPT !.size = @ + 1]
    /\ UNCHANGED <<client, call, prev, bu, shared, net>>

\* another process truncates the file
FileTruncate ==
    /\ \E n \in 0..(fs.size - 1) : fs' = [fs EXCEPT !.size = n]
    /\ UNCHANGED <<client, call, prev, bu, shared, net>>

\* Upload calls upload, which opens the file
UpOpen ==
    /\ Idle
    /\ fs.pc = "idle"
    /\ fs' = [fs EXCEPT !.handles = Min(@ + 1, MaxHandles), !.pc = "copy",
                        !.openSize = fs.size, !.off = 0, !.written = 0]
    /\ UNCHANGED <<client, call, prev, bu, shared, net>>

\* io.Copy(part, file): one more block, or the end of the file and of the copy
UpCopy ==
    /\ fs.pc = "copy"
    /\ fs' = IF fs.off < fs.size
             THEN [fs EXCEPT !.off = @ + 1, !.written = @ + 1]
             ELSE [fs EXCEPT !.pc = "stat"]
    /\ UNCHANGED <<client, call, prev, bu, shared, net>>

\* file.Stat(), the comparison with written, the deferred file.Close(), and the rest
\* of Upload
UpStat ==
    /\ fs.pc = "stat"
    /\ \E opt \in FileOptionsSet, reply \in Replies :
        LET file == LocalFile(TRUE, UpContent(fs.written), fs.size)
            o    == Upload(client, <<"a.bin">>, file, opt, reply)
        IN  call' = [op |-> "Upload",
                     args |-> [srcPath |-> <<"a.bin">>, file |-> file, opt |-> opt],
                     reqs |-> o.reqs, val |-> o.val, resp |-> o.resp, err |-> o.err,
                     sum |-> NoSum]
    /\ fs' = [fs EXCEPT !.handles = @ - 1, !.pc = "idle"]
    /\ UNCHANGED <<client, prev, bu, shared, net>>

NextUpload ==
    \/ FileAppend
    \/ FileTruncate
    \/ UpOpen
    \/ UpCopy
    \/ UpStat
    \/ Forget

SpecUpload == Init /\ [][NextUpload]_vars

\* C15: upload returns ErrIncompleteFile, and Upload sends no request, whenever the
\* number of bytes copied into the request body differs from the size the file had
\* when it was opened, also when another process truncated or extended the file
\* while it was read.
C15_IncompleteFileDetected ==
    (call.op = "Upload" /\ fs.pc = "idle" /\ fs.written # fs.openSize) =>
        /\ call.err = LocalErr(ErrIncompleteFile)
        /\ call.reqs = <<>>

\* C16: every file handle SumFile or upload opened is closed when the operation
\* returns: between operations no handle is open.
C16_HandlesClosed == fs.pc = "idle" => fs.handles = 0

\* C17: no operation modifies the client's BaseURL, UploadURL, DownloadURL or
\* AccessToken after NewClient: after any sequence of operations the fields have
\* their constructed values, so the URL built for a call depends on the call alone.
C17_ClientNeverModified ==
    /\ [][client' = client]_vars
    /\ [](client = NewClient(client.AccessToken))

\* GetQuota has sent its request after an earlier SumFile on the same client
C17_Witness ==
    /\ call.op = "GetQuota"
    /\ call.reqs # <<>>
    /\ fs.handles = 1
    /\ client.BaseURL = ParseURL(defaultBaseURL)

\* the call was given an option struct (not a nil pointer) and sent a request
SentWithOptions ==
    /\ "opt" \in DOMAIN call.args
    /\ ~call.args.opt.isnil
    /\ call.reqs # <<>>

\* C18: in the URL addOptions builds, a field declared omitempty is a query
\* parameter if and only if its value is not the zero value of its type ("" or 0);
\* an unset omitempty field is never sent as a parameter with an empty value.
C18_OmitEmpty ==
    SentWithOptions =>
        \A i \in 1..Len(Tags(call.args.opt.type)) :
            LET tag   == Tags(call.args.opt.type)[i]
                v     == call.args.opt.val[tag.field]
                zero  == IF tag.kind = "int" THEN v = 0 ELSE v = ""
                found == ParamValues(call.reqs[1].URL.RawQuery, tag.name)
            IN  tag.omitempty =>
                    /\ (found # <<>>) <=> ~zero
                    /\ ~zero => found = <<IF tag.kind = "int" THEN ToString(v) ELSE v>>
                    /\ \A j \in 1..Len(found) : found[j] # ""

\* Upload with OnDup unset sent its request without ondup
C18_Witness ==
    /\ call.op = "Upload"
    /\ SentWithOptions
    /\ call.args.opt.val.OnDup = ""
    /\ ParamValues(call.reqs[1].URL.RawQuery, "ondup") = <<>>
    /\ ParamValues(call.reqs[1].URL.RawQuery, "path") # <<>>

(***************************************************************************)
(* Calls on the client of the variant with shared URL and query fields     *)
(***************************************************************************)
\* at most MaxSharedCalls methods are called on the client of the variant
MaxSharedCalls == 3

\* a method of the variant returns
SharedReturns(op, args, r) ==
    /\ call' = [op |-> op, args |-> args, reqs |-> r.o.reqs, val |-> r.o.val,
                resp |-> r.o.resp, err |-> r.o.err, sum |-> NoSum]
    /\ shared' = r.c
    /\ UNCHANGED <<client, prev, bu, fs, net>>

CallSharedGetQuota ==
    /\ Idle
    /\ shared.calls < MaxSharedCalls
    /\ \E reply \in Replies :
        SharedReturns("GetQuota", [none |-> TRUE], SharedGetQuota(shared, reply))

CallSharedUpload ==
    /\ Idle
    /\ shared.calls < MaxSharedCalls
    /\ \E file \in {MissingFile, LocalFile(TRUE, UpContent(1), 1)},
          targetPath \in RemotePaths, overwrite \in BOOLEAN, reply \in Replies :
        SharedReturns("Upload",
                      [srcPath |-> <<"a.bin">>, file |-> file, targetPath |-> targetPath,
                       overwrite |-> overwrite],
                      SharedUpload(shared, <<"a.bin">>, file, targetPath, overwrite, reply))

CallSharedDelete ==
    /\ Idle
    /\ shared.calls < MaxSharedCalls
    /\ \E path \in RemotePaths, reply \in Replies :
        SharedReturns("Delete", [path |-> path], SharedDelete(shared, path, reply))

NextShared ==
    \/ CallSharedGetQuota
    \/ CallSharedUpload
    \/ CallSharedDelete
    \/ Forget

SpecShared == Init /\ [][NextShared]_vars

\* the query parameters a method of the variant sets itself
SharedParams(op) ==
    CASE op = "GetQuota" -> {"access_token", "method"}
      [] op = "Upload" -> {"access_token", "method", "path", "ondup"}
      [] op = "Delete" -> {"access_token", "method", "path"}
      [] OTHER -> {}

\* C19: in the variant with shared URL and query fields every call starts from a
\* clean path and query: the request of a call has the base path followed by the
\* call's own resource segment and no query parameter but the call's own,
\* whatever calls came before.  Stated of GetQuota and Upload, the calls the claim
\* names; Delete is one of the calls that come before.
C19_CleanPathAndQuery ==
    (call.op \in {"GetQuota", "Upload"} /\ call.reqs # <<>>) =>
        /\ call.reqs[1].URL.Path = <<"", "rest", "2.0", "pcs">> \o ApiResource(call.op)
        /\ \A i \in 1..Len(call.reqs[1].URL.RawQuery) :
              call.reqs[1].URL.RawQuery[i].k \in SharedParams(call.op)

\* C21: PartialDownload sends no request for an invalid byte range: a call whose
\* (start, end) is not an inclusive span with 0 <= start <= end returns
\* ErrInvalidArgument and hands nothing to the transport, and every request sent
\* carries Range: bytes=<start>-<end> for such a span.
C21_NoRequestForInvalidRange ==
    call.op = "PartialDownload" =>
        IF 0 <= call.args.start /\ call.args.start <= call.args.end
        THEN \A i \in 1..Len(call.reqs) :
                call.reqs[i].Header.Range =
                    [set |-> TRUE, start |-> call.args.start, end |-> call.args.end]
        ELSE /\ call.err = LocalErr(ErrInvalidArgument)
             /\ call.reqs = <<>>

(***************************************************************************)
(* A request inside c.client.Do, stage by stage: the transport dials, does *)
(* the TLS handshake, writes the request and waits for the response.  The  *)
(* server decides whether and when a stage completes; the transport gives  *)
(* a stage up when the timeout NewHttpClient set for it expires.           *)
(***************************************************************************)
\* the seconds after which the transport gives up the stage, 0 for never
TimeoutOf(pc) ==
    CASE pc = "dial" -> NewHttpClient.DialTimeout
      [] pc = "tls"  -> NewHttpClient.TLSHandshakeTimeout
      [] pc = "wait" -> NewHttpClient.ResponseHeaderTimeout
      [] OTHER -> 0

\* a public method hands its request to c.client.Do
NetStart ==
    /\ Idle
    /\ net.pc = "idle"
    /\ \E op \in {"GetQuota", "Mkdir", "Download"}, path \in RemotePaths :
        net' = [NoNet EXCEPT !.pc = "dial", !.op = op,
                             !.path = IF op = "GetQuota" THEN "" ELSE path]
    /\ UNCHANGED <<client, call, prev, bu, fs, shared>>

\* the server lets the stage complete: it accepts the connection, completes the
\* handshake, sends a response
NetProgress ==
    /\ net.pc \in {"dial", "tls", "wait"}
    /\ \E reply \in Replies \ {NoNet.reply} :
        net' = CASE net.pc = "dial" -> [net EXCEPT !.pc = "tls"]
                 [] net.pc = "tls"  -> [net EXCEPT !.pc = "wait"]
                 [] OTHER -> [net EXCEPT !.pc = "replied", !.reply = reply]
    /\ UNCHANGED <<client, call, prev, bu, fs, shared>>

\* the timeout of the stage, or of the whole request, expires: c.client.Do returns
\* an error
NetTimeout ==
    /\ net.pc \in {"dial", "tls", "wait"}
    /\ TimeoutOf(net.pc) > 0 \/ NewHttpClient.Timeout > 0
    /\ net' = [net EXCEPT !.pc = "failed"]
    /\ UNCHANGED <<client, call, prev, bu, fs, shared>>

\* c.client.Do has returned: the rest of Do and of the method, which returns
NetReturn ==
    /\ net.pc \in {"replied", "failed"}
    /\ call' = LET o == CASE net.op = "GetQuota" -> GetQuota(client, net.reply)
                          [] net.op = "Mkdir" -> Mkdir(client, net.path, net.reply)
                          [] OTHER -> Download(client, net.path, net.reply)
               IN  [op |-> net.op, args |-> [path |-> net.path], reqs |-> o.reqs,
                    val |-> o.val, resp |-> o.resp, err |-> o.err, sum |-> NoSum]
    /\ net' = NoNet
    /\ UNCHANGED <<client, prev, bu, fs, shared>>

NextWait ==
    \/ NetStart
    \/ NetProgress
    \/ NetTimeout
    \/ NetReturn
    \/ Forget

\* the step of NetReturn, by what it does to net
NetReturnStep == net.pc \in {"replied", "failed"} /\ net' = NoNet

\* the timers of the transport run and the client's own steps (NetReturn, Forget)
\* are taken; nothing obliges the server to act
SpecWait ==
    /\ Init
    /\ [][NextWait]_vars
    /\ WF_vars(NetTimeout)
    /\ WF_net(NetReturnStep)
    /\ WF_vars(Forget)

\* C22: every call of a public operation eventually returns to its caller, also
\* when the server accepts the connection and never sends a response: each request
\* is bounded by a timeout.
C22_EveryCallReturns == (net.pc = "dial") ~> (net.pc = "idle")

\* C23: a call of a public operation hands at most one request to the transport,
\* and none when local validation or the reading of the local file fails; when the
\* transport fails, the operation returns the transport's error with a nil response
\* and a nil result, the request having been sent once.
C23_AtMostOneRequestNoRetry ==
    call.op # "NewClient" =>
        /\ Len(call.reqs) <= 1
        /\ call.err.kind = "local" => call.reqs = <<>>
        /\ call.err = TransportErr =>
              /\ Len(call.reqs) = 1
              /\ call.resp = NoResp
              /\ call.val = NilVal

\* Upload read its file, sent its one request, and the transport failed
C23_Witness ==
    /\ call.op = "Upload"
    /\ call.err = TransportErr
    /\ Len(call.reqs) = 1
    /\ call.reqs[1].Body.kind = "multipart"
    /\ call.resp = NoResp
    /\ call.val = NilVal

=============================================================================
